---------------------------- MODULE Spec2Model ----------------------------
(***************************************************************************)
(* ptrcheck: AXFR a zone, collect its A/AAAA records, reverse-resolve      *)
(* every address and count the missing / unacceptable PTR records.        *)
(*                                                                         *)
(* Two specifications over one set of variables:                          *)
(*   Spec       main() from the call of do_axfr to the process' end       *)
(*   SpecParse  parse_socketaddr applied to one server string             *)
(***************************************************************************)
EXTENDS Integers, Sequences, FiniteSets, TLC

(***************************************************************************)
(* Bounds of the model.                                                    *)
(***************************************************************************)
\* messages one transfer may deliver
MaxMsgs == 2
\* answer records one transfer may carry, all messages together
MaxRecords == 3
\* PTR names the resolver may return, all lookups together
MaxPtrs == 2

(***************************************************************************)
(* Program constants.                                                      *)
(***************************************************************************)
\* num_records -= 2
SoaRecords == 2
\* SocketAddr::new(ip, 53)
DefaultPort == 53
\* std::process::exit(2)
ExitRefused == 2
\* std::process::exit(1), and main returning Err
ExitFailure == 1
\* a panic! unwinding out of main
ExitPanic == 101
\* u16::MAX, the largest port
U16Max == 65535

VARIABLES
    pc,           \* where the process is
    verbose,      \* args.verbose
    re,           \* Option<Regex>: the compiled --badre
    received,     \* history: the items response_stream has yielded
    seen,         \* do_axfr: HashMap<IpAddr, Vec<String>>
    num_records,  \* do_axfr: the record counter (usize)
    zone_count,   \* Option: the count "Zone contains {} records" printed
    visited,      \* main: keys the for loop has been through
    lookups,      \* history: per address, the resolver's answers to its lookups
    failcount,    \* main: u64
    ok_pct,       \* Option: the percentage main printed
    exit_code,    \* Option: the process' exit status
    server,       \* parse_socketaddr: its argument
    result        \* Option: what parse_socketaddr returned

vars == <<pc, verbose, re, received, seen, num_records, zone_count, visited,
          lookups, failcount, ok_pct, exit_code, server, result>>

runVars == <<pc, verbose, re, received, seen, num_records, zone_count, visited,
             lookups, failcount, ok_pct, exit_code>>

parseVars == <<server, result>>

\* Option<T>: None is the empty set, Some(x) the singleton {x}.
None == {}
Some(x) == {x}
Unwrap(o) == CHOOSE x \in o : TRUE

NoData == "NoData"

(***************************************************************************)
(* The zone transfer's input: what the server may send.                    *)
(***************************************************************************)
Addrs == {"192.0.2.1", "2001:db8::2"}

\* A resource record: its type, its owner name and its rdata (an address for
\* A/AAAA, "rdata" for the other types; a record of a transfer has rdata,
\* record.data() is Some).
Records ==
    { [rtype |-> "SOA",  name |-> "example.",    data |-> "rdata"],
      [rtype |-> "A",    name |-> "a.example.",  data |-> "192.0.2.1"],
      [rtype |-> "A",    name |-> "b.example.",  data |-> "192.0.2.1"],
      [rtype |-> "AAAA", name |-> "a.example.",  data |-> "2001:db8::2"] }

SeqsUpTo(S, n) == UNION { [1..k -> S] : k \in 0..n }

ResponseCodes == {"NoError", "Refused", "NotAuth", "ServFail"}

\* One item of response_stream: Err(_) (decoded = FALSE) or Ok(DnsResponse).
\* A NoError response carries any answers; one with another status carries
\* none or one address record.
Responses ==
    { [decoded |-> FALSE, rcode |-> "NoError", answers |-> << >>] }
    \cup [decoded : {TRUE}, rcode : {"NoError"}, answers : SeqsUpTo(Records, MaxRecords)]
    \cup [decoded : {TRUE}, rcode : ResponseCodes \ {"NoError"},
          answers : { << >>, <<[rtype |-> "A", name |-> "a.example.", data |-> "192.0.2.1"]>> }]

RECURSIVE Flatten(_)
Flatten(msgs) ==
    IF msgs = << >> THEN << >> ELSE Head(msgs).answers \o Flatten(Tail(msgs))

\* history: every answer record received so far, in delivery order
AllRecords == Flatten(received)

(***************************************************************************)
(* do_axfr                                                                 *)
(***************************************************************************)
\* Mutant: Refused and NotAuth fall into the `_` arm (an ordinary Err).
response_arm_rejection_is_err(resp) ==
    IF ~resp.decoded THEN "err"
    ELSE CASE resp.rcode = "NoError" -> "carry_on"
           [] OTHER                  -> "err"

\* Mutant: the `_` arm carries on like NoError.
response_arm_other_carries_on(resp) ==
    IF ~resp.decoded THEN "err"
    ELSE CASE resp.rcode = "Refused" -> "exit2"
           [] resp.rcode = "NotAuth" -> "exit2"
           [] OTHER                  -> "carry_on"

\* match response / match response.response_code(): what the arm taken does.
response_arm(resp) ==
    IF ~resp.decoded THEN "err"
    ELSE CASE resp.rcode = "NoError" -> "carry_on"
           [] resp.rcode = "Refused" -> "exit2"
           [] resp.rcode = "NotAuth" -> "exit2"
           [] OTHER                  -> "err"

\* .filter(|rec| matches!(rec.record_type(), RecordType::A | RecordType::AAAA))
is_address_record(rec) == rec.rtype \in {"A", "AAAA"}

\* Mutant: seen.insert(rr_addr, vec![rr_name]), the last name replacing the list.
entry_push_overwrite(map, addr, name) ==
    [a \in (DOMAIN map) \cup {addr} |-> IF a = addr THEN <<name>> ELSE map[a]]

\* seen.entry(rr_addr).or_insert_with(Vec::new).push(rr_name)
entry_push(map, addr, name) ==
    IF addr \in DOMAIN map
    THEN [map EXCEPT ![addr] = Append(@, name)]
    ELSE [a \in (DOMAIN map) \cup {addr} |-> IF a = addr THEN <<name>> ELSE map[a]]

\* one pass of `for record in answers`, with its two `continue`s
insert_record(map, rec) ==
    IF ~is_address_record(rec) THEN map
    ELSE IF rec.data = NoData THEN map
    ELSE IF rec.data \notin Addrs THEN map
    ELSE entry_push(map, rec.data, rec.name)

RECURSIVE insert_answers(_, _)
insert_answers(map, answers) ==
    IF answers = << >> THEN map
    ELSE insert_answers(insert_record(map, Head(answers)), Tail(answers))

\* if args.verbose { num_records += answers.len(); }
count_answers(n, v, answers) == IF v THEN n + Len(answers) ELSE n

EmptyMap == [a \in {} |-> << >>]

\* TcpClientConnection::new(address)? or client.zone_transfer(..) fails.
ConnectError ==
    /\ pc = "connect"
    /\ pc' = "errored"
    /\ exit_code' = Some(ExitFailure)
    /\ UNCHANGED <<verbose, re, received, seen, num_records, zone_count, visited,
                   lookups, failcount, ok_pct, server, result>>

Connect ==
    /\ pc = "connect"
    /\ pc' = "axfr"
    /\ UNCHANGED <<verbose, re, received, seen, num_records, zone_count, visited,
                   lookups, failcount, ok_pct, exit_code, server, result>>

\* One pass of `for response in response_stream`.
AxfrMessage ==
    /\ pc = "axfr"
    /\ Len(received) < MaxMsgs
    /\ \E resp \in Responses :
        /\ Len(AllRecords) + Len(resp.answers) <= MaxRecords
        /\ received' = Append(received, resp)
        /\ CASE response_arm(resp) = "carry_on" ->
                  /\ num_records' = count_answers(num_records, verbose, resp.answers)
                  /\ seen' = insert_answers(seen, resp.answers)
                  /\ UNCHANGED <<pc, exit_code>>
             [] response_arm(resp) = "exit2" ->
                  /\ pc' = "exited"
                  /\ exit_code' = Some(ExitRefused)
                  /\ UNCHANGED <<seen, num_records>>
             [] OTHER ->
                  /\ pc' = "errored"
                  /\ exit_code' = Some(ExitFailure)
                  /\ UNCHANGED <<seen, num_records>>
    /\ UNCHANGED <<verbose, re, zone_count, visited, lookups, failcount, ok_pct,
                   server, result>>

\* A usize is held as the two's-complement reading of its 64 bits: an Int
\* x >= 0 is the value x, an Int x < 0 is the value 2^64 + x.
\* num_records -= 2 without overflow checks: the wrapping difference.
sub_soa(n) == n - SoaRecords

\* The stream ends: the verbose report, then Ok(seen).
AxfrEnd ==
    /\ pc = "axfr"
    /\ \/ /\ ~verbose
          /\ pc' = "audit"
          /\ UNCHANGED <<num_records, zone_count, exit_code>>
       \/ /\ verbose
          /\ num_records >= SoaRecords
          /\ num_records' = sub_soa(num_records)
          /\ zone_count' = Some(sub_soa(num_records))
          /\ pc' = "audit"
          /\ UNCHANGED exit_code
       \/ /\ verbose
          /\ num_records < SoaRecords
          /\ \/ /\ num_records' = sub_soa(num_records)
                /\ zone_count' = Some(sub_soa(num_records))
                /\ pc' = "audit"
                /\ UNCHANGED exit_code
             \/ /\ pc' = "panicked"
                /\ exit_code' = Some(ExitPanic)
                /\ UNCHANGED <<num_records, zone_count>>
    /\ UNCHANGED <<verbose, re, received, seen, visited, lookups, failcount,
                   ok_pct, server, result>>

(***************************************************************************)
(* get_ptrs and the audit loop of main                                     *)
(***************************************************************************)
PtrNames == {"dyn-1.example.", "dyn-2.example."}

\* the lookups issued so far, each as <<address, its rank for that address>>
LookupIdx == UNION { { <<a, k>> : k \in DOMAIN lookups[a] } : a \in DOMAIN lookups }

RECURSIVE NamesIn(_)
NamesIn(idx) ==
    IF idx = {} THEN 0
    ELSE LET i == CHOOSE x \in idx : TRUE
         IN  Len(lookups[i[1]][i[2]].names) + NamesIn(idx \ {i})

\* history: the PTR names the resolver has returned so far
PtrsReturned == NamesIn(LookupIdx)

\* the history with one more lookup
Logged(addr, outcome) ==
    [a \in (DOMAIN lookups) \cup {addr} |->
        IF a = addr
        THEN (IF a \in DOMAIN lookups THEN lookups[a] ELSE << >>) \o <<outcome>>
        ELSE lookups[a]]

\* A compiled --badre is modelled by the set of PTR names it matches:
\* no pattern, "dyn-2" and "dyn-".
Regexes == {None, Some({"dyn-2.example."}), Some({"dyn-1.example.", "dyn-2.example."})}

\* The PTR records of one answer: an RRset, which holds a name once.
NameLists == { q \in SeqsUpTo(PtrNames, MaxPtrs) : \A i, j \in 1..Len(q) : q[i] = q[j] => i = j }

\* What resolver.reverse_lookup(addr) may answer.
ResolverOutcomes ==
    [kind : {"Names"}, names : NameLists]
    \cup [kind : {"NoRecordsFound", "Timeout", "Other"}, names : {<< >>}]

\* Mutant: the `_` arm returns the error as the Timeout arm does.
get_ptrs_returns_every_err(outcome) ==
    CASE outcome.kind = "Names"          -> [ok |-> TRUE,  ptrs |-> outcome.names, err |-> "none"]
      [] outcome.kind = "NoRecordsFound" -> [ok |-> TRUE,  ptrs |-> << >>,         err |-> "none"]
      [] outcome.kind = "Timeout"        -> [ok |-> FALSE, ptrs |-> << >>,         err |-> "Timeout"]
      [] OTHER                           -> [ok |-> FALSE, ptrs |-> << >>,         err |-> "Other"]

\* get_ptrs: Ok(ptrs), or Err(e) for a timeout only.
get_ptrs(outcome) ==
    CASE outcome.kind = "Names"          -> [ok |-> TRUE,  ptrs |-> outcome.names, err |-> "none"]
      [] outcome.kind = "NoRecordsFound" -> [ok |-> TRUE,  ptrs |-> << >>,         err |-> "none"]
      [] outcome.kind = "Timeout"        -> [ok |-> FALSE, ptrs |-> << >>,         err |-> "Timeout"]
      [] OTHER                           -> [ok |-> TRUE,  ptrs |-> << >>,         err |-> "none"]

\* if let Some(r) = &re { if let Some(_captures) = r.captures(&ptr) {..} }
is_bad_ptr(r, ptr) == r # None /\ ptr \in Unwrap(r)

\* Mutant: one failure per address however many of its names match.
count_bad_ptrs_once(r, ptrnames) ==
    IF \E i \in 1..Len(ptrnames) : is_bad_ptr(r, ptrnames[i]) THEN 1 ELSE 0

\* `for ptr in ptrnames`: one failcount += 1 for each name the regex matches
RECURSIVE count_bad_ptrs(_, _)
count_bad_ptrs(r, ptrnames) ==
    IF ptrnames = << >> THEN 0
    ELSE (IF is_bad_ptr(r, Head(ptrnames)) THEN 1 ELSE 0)
         + count_bad_ptrs(r, Tail(ptrnames))

\* The Ok(ptrnames) arm of main's match, as the number added to failcount.
ok_arm_failures(r, ptrnames) ==
    (IF ptrnames = << >> THEN 1 ELSE 0) + count_bad_ptrs(r, ptrnames)

\* One pass of `for (addr, names) in &seen`. A HashMap iterates in an
\* arbitrary order: any key not yet visited may come next.
AuditAddress ==
    /\ pc = "audit"
    /\ \E addr \in (DOMAIN seen) \ visited :
       \E outcome \in ResolverOutcomes :
         LET res == get_ptrs(outcome) IN
           /\ PtrsReturned + Len(outcome.names) <= MaxPtrs
           /\ visited' = visited \cup {addr}
           /\ lookups' = Logged(addr, outcome)
           /\ CASE res.ok ->
                     /\ failcount' = failcount + ok_arm_failures(re, res.ptrs)
                     /\ UNCHANGED <<pc, exit_code>>
                [] ~res.ok /\ res.err = "Timeout" ->
                     /\ failcount' = failcount + 1
                     /\ UNCHANGED <<pc, exit_code>>
                [] OTHER ->
                     \* panic!("Unhandled ResolveError ..")
                     /\ pc' = "panicked"
                     /\ exit_code' = Some(ExitPanic)
                     /\ UNCHANGED failcount
    /\ UNCHANGED <<verbose, re, received, seen, num_records, zone_count, ok_pct,
                   server, result>>

\* ok_pct as the exact quotient num / den of the f32 expression (the f32
\* rounding of these small integers keeps its sign and its order with 0 and 100).
percent_ok(n, f) ==
    IF f = 0 THEN [num |-> 100, den |-> 1]
    ELSE IF f = n THEN [num |-> 0, den |-> 1]
    ELSE [num |-> (n - f) * 100, den |-> n]

\* The loop is over: the summary, then exit(1) or Ok(()).
AuditEnd ==
    /\ pc = "audit"
    /\ visited = DOMAIN seen
    /\ ok_pct' = IF verbose /\ Cardinality(DOMAIN seen) > 0
                 THEN Some(percent_ok(Cardinality(DOMAIN seen), failcount))
                 ELSE None
    /\ pc' = "done"
    /\ exit_code' = Some(IF failcount > 0 THEN ExitFailure ELSE 0)
    /\ UNCHANGED <<verbose, re, received, seen, num_records, zone_count, visited,
                   lookups, failcount, server, result>>

RunInit ==
    /\ pc = "connect"
    /\ verbose \in BOOLEAN
    /\ re \in Regexes
    /\ received = << >>
    /\ seen = EmptyMap
    /\ num_records = 0
    /\ zone_count = None
    /\ visited = {}
    /\ lookups = EmptyMap
    /\ failcount = 0
    /\ ok_pct = None
    /\ exit_code = None

Init ==
    /\ RunInit
    /\ server = << >>
    /\ result = None

Next ==
    \/ ConnectError
    \/ Connect
    \/ AxfrMessage
    \/ AxfrEnd
    \/ AuditAddress
    \/ AuditEnd

Spec == Init /\ [][Next]_vars

(***************************************************************************)
(* parse_socketaddr.  A &str is a sequence of one-character strings.       *)
(***************************************************************************)
DecDigits == <<"0", "1", "2", "3", "4", "5", "6", "7", "8", "9">>
HexLower == DecDigits \o <<"a", "b", "c", "d", "e", "f">>
HexUpper == DecDigits \o <<"A", "B", "C", "D", "E", "F">>

Range(q) == { q[i] : i \in 1..Len(q) }
IndexOf(c, table) == CHOOSE i \in 1..Len(table) : table[i] = c
IsDec(c) == c \in Range(DecDigits)
IsHex(c) == c \in Range(HexLower) \cup Range(HexUpper)
HexVal(c) == IF c \in Range(HexLower) THEN IndexOf(c, HexLower) - 1 ELSE IndexOf(c, HexUpper) - 1
Front(q) == SubSeq(q, 1, Len(q) - 1)
Last(q) == q[Len(q)]
Has(q, c) == \E i \in 1..Len(q) : q[i] = c

RECURSIVE Split(_, _)
Split(q, sep) ==
    IF ~Has(q, sep) THEN <<q>>
    ELSE LET i == CHOOSE k \in 1..Len(q) : q[k] = sep /\ \A j \in 1..(k - 1) : q[j] # sep
         IN  <<SubSeq(q, 1, i - 1)>> \o Split(SubSeq(q, i + 1, Len(q)), sep)

\* The value of a digit string in `base`, saturating just above `max`.
RECURSIVE digits_value(_, _, _)
digits_value(q, base, max) ==
    IF q = << >> THEN 0
    ELSE LET v == digits_value(Front(q), base, max) * base + HexVal(Last(q))
         IN  IF v > max THEN max + 1 ELSE v

\* str::parse::<u16>(): an optional '+', then decimal digits, no overflow.
parse_u16(q) ==
    LET digits == IF q # << >> /\ q[1] = "+" THEN Tail(q) ELSE q
    IN  IF digits = << >> \/ \E i \in 1..Len(digits) : ~IsDec(digits[i]) THEN None
        ELSE IF digits_value(digits, 10, U16Max) > U16Max THEN None
        ELSE Some(digits_value(digits, 10, U16Max))

\* One octet of an Ipv4Addr: 1 to 3 decimal digits, no leading zero, <= 255.
is_octet(q) ==
    /\ Len(q) \in 1..3
    /\ \A i \in 1..Len(q) : IsDec(q[i])
    /\ Len(q) > 1 => q[1] # "0"
    /\ digits_value(q, 10, 255) <= 255

\* Ipv4Addr::from_str
parse_ipv4(q) ==
    LET parts == Split(q, ".")
    IN  IF Len(parts) = 4 /\ \A i \in 1..4 : is_octet(parts[i])
        THEN Some([v |-> 4, parts |-> [i \in 1..4 |-> digits_value(parts[i], 10, 255)]])
        ELSE None

\* One group of an Ipv6Addr: 1 to 4 hex digits.
is_group(q) == Len(q) \in 1..4 /\ \A i \in 1..Len(q) : IsHex(q[i])

\* The groups of a ':'-separated run, the last of which may be an embedded
\* IPv4 address (two groups); None when some part is neither.
read_groups(q) ==
    IF q = << >> THEN Some(<< >>)
    ELSE LET parts == Split(q, ":")
             n == Len(parts)
             v4 == parse_ipv4(parts[n])
             hex(i) == digits_value(parts[i], 16, U16Max)
         IN  IF \A i \in 1..n : is_group(parts[i])
             THEN Some([i \in 1..n |-> hex(i)])
             ELSE IF (\A i \in 1..(n - 1) : is_group(parts[i])) /\ v4 # None
             THEN Some([i \in 1..(n + 1) |->
                          IF i < n THEN hex(i)
                          ELSE IF i = n
                          THEN Unwrap(v4).parts[1] * 256 + Unwrap(v4).parts[2]
                          ELSE Unwrap(v4).parts[3] * 256 + Unwrap(v4).parts[4]])
             ELSE None

\* Ipv6Addr::from_str: eight groups, or one "::" standing for one or more
\* groups of zeros.
parse_ipv6(q) ==
    LET gaps == { i \in 1..(Len(q) - 1) : q[i] = ":" /\ q[i + 1] = ":" }
    IN  IF gaps = {}
        THEN LET g == read_groups(q)
             IN  IF g # None /\ Len(Unwrap(g)) = 8
                 THEN Some([v |-> 6, parts |-> Unwrap(g)])
                 ELSE None
        ELSE IF Cardinality(gaps) > 1 THEN None
        ELSE LET i == CHOOSE k \in gaps : TRUE
                 head == read_groups(SubSeq(q, 1, i - 1))
                 tail == read_groups(SubSeq(q, i + 2, Len(q)))
                 hexOnly == \A k \in 1..(i - 1) : q[k] # "."
             IN  IF head = None \/ tail = None \/ ~hexOnly THEN None
                 ELSE IF Len(Unwrap(head)) + Len(Unwrap(tail)) > 7 THEN None
                 ELSE Some([v |-> 6,
                            parts |-> [k \in 1..8 |->
                               IF k <= Len(Unwrap(head)) THEN Unwrap(head)[k]
                               ELSE IF k > 8 - Len(Unwrap(tail))
                               THEN Unwrap(tail)[k - (8 - Len(Unwrap(tail)))]
                               ELSE 0]])

\* IpAddr::from_str: an IPv4 literal, else an IPv6 literal.
parse_ip(q) == IF parse_ipv4(q) # None THEN parse_ipv4(q) ELSE parse_ipv6(q)

\* The matches of \[?(?<ip>[^]]+)\]?:(?<port>[^]]+)$ in q, each as
\* <<start, whether '[' is taken, length of ip, whether ']' is taken>>.
regex_matches(q) ==
    { m \in (1..Len(q)) \X {0, 1} \X (1..Len(q)) \X {0, 1} :
        LET ipFrom == m[1] + m[2]
            ipTo == ipFrom + m[3] - 1
            colon == ipTo + m[4] + 1
        IN  /\ colon < Len(q)
            /\ m[2] = 1 => q[m[1]] = "["
            /\ \A i \in ipFrom..ipTo : q[i] # "]"
            /\ m[4] = 1 => q[ipTo + 1] = "]"
            /\ q[colon] = ":"
            /\ \A i \in (colon + 1)..Len(q) : q[i] # "]" }

\* Leftmost match first; at one start every quantifier is greedy, the
\* earlier one deciding first.
re_prefers(m, n) ==
    \/ m[1] < n[1]
    \/ m[1] = n[1] /\ m[2] > n[2]
    \/ m[1] = n[1] /\ m[2] = n[2] /\ m[3] > n[3]
    \/ m[1] = n[1] /\ m[2] = n[2] /\ m[3] = n[3] /\ m[4] >= n[4]

\* re.captures(ip_port): Some of the groups ip and port, or None.
re_captures(q) ==
    IF regex_matches(q) = {} THEN None
    ELSE LET m == CHOOSE x \in regex_matches(q) : \A y \in regex_matches(q) : re_prefers(x, y)
             ipFrom == m[1] + m[2]
             ipTo == ipFrom + m[3] - 1
         IN  Some([ip |-> SubSeq(q, ipFrom, ipTo),
                   port |-> SubSeq(q, ipTo + m[4] + 2, Len(q))])

\* ip_port.replace(['[', ']'], "")
strip_brackets(q) == SelectSeq(q, LAMBDA c : c \notin {"[", "]"})

NoIp == [v |-> 0, parts |-> << >>]
Ok(ip, port) == [kind |-> "Ok", ip |-> ip, port |-> port, text |-> << >>]
Err(kind, text) == [kind |-> kind, ip |-> NoIp, port |-> 0, text |-> text]

\* Mutant: without the `if port == 0` check.
parse_with_port_accepts_zero(caps) ==
    IF parse_ip(caps.ip) = None THEN Err("InvalidAddress", caps.ip)
    ELSE IF parse_u16(caps.port) = None THEN Err("InvalidPort", caps.port)
    ELSE Ok(Unwrap(parse_ip(caps.ip)), Unwrap(parse_u16(caps.port)))

\* The arm of parse_socketaddr that has both captures.
parse_with_port(caps) ==
    IF parse_ip(caps.ip) = None THEN Err("InvalidAddress", caps.ip)
    ELSE IF parse_u16(caps.port) = None THEN Err("InvalidPort", caps.port)
    ELSE IF Unwrap(parse_u16(caps.port)) = 0 THEN Err("Panic", caps.port)
    ELSE Ok(Unwrap(parse_ip(caps.ip)), Unwrap(parse_u16(caps.port)))

\* The `_` arm: no port, the default one.
parse_without_port(q) ==
    IF parse_ip(strip_brackets(q)) = None THEN Err("InvalidAddress", strip_brackets(q))
    ELSE Ok(Unwrap(parse_ip(strip_brackets(q))), DefaultPort)

parse_socketaddr(ip_port) ==
    IF re_captures(ip_port) # None
    THEN parse_with_port(Unwrap(re_captures(ip_port)))
    ELSE parse_without_port(ip_port)

ParseSocketaddr ==
    /\ pc = "parse"
    /\ result' = Some(parse_socketaddr(server))
    /\ pc' = "parsed"
    /\ UNCHANGED <<verbose, re, received, seen, num_records, zone_count, visited,
                   lookups, failcount, ok_pct, exit_code, server>>

(***************************************************************************)
(* The server strings parse_socketaddr is given.                           *)
(***************************************************************************)
RECURSIVE to_digits(_, _)
to_digits(n, base) ==
    IF n < base THEN <<HexLower[n + 1]>>
    ELSE to_digits(n \div base, base) \o <<HexLower[(n % base) + 1]>>

RECURSIVE Join(_, _)
Join(qs, sep) ==
    IF qs = << >> THEN << >>
    ELSE IF Len(qs) = 1 THEN qs[1]
    ELSE qs[1] \o <<sep>> \o Join(Tail(qs), sep)

\* Display of an Ipv4Addr given as its four octets
format_octets(o) == Join([i \in 1..4 |-> to_digits(o[i], 10)], ".")

\* Display of an Ipv6Addr: ::ffff:a.b.c.d for an IPv4-mapped address; else
\* the first longest run of two or more zero groups becomes "::".
format_groups(g) ==
    LET hex(from, to) == Join([i \in 1..(to - from + 1) |-> to_digits(g[from + i - 1], 16)], ":")
        runs == { r \in (1..8) \X (1..8) :
                    /\ r[1] + r[2] - 1 <= 8
                    /\ \A i \in r[1]..(r[1] + r[2] - 1) : g[i] = 0 }
        best == CHOOSE r \in runs : \A x \in runs :
                    r[2] > x[2] \/ (r[2] = x[2] /\ r[1] <= x[1])
    IN  IF (\A i \in 1..5 : g[i] = 0) /\ g[6] = U16Max
        THEN <<":", ":", "f", "f", "f", "f", ":">>
             \o format_octets(<<g[7] \div 256, g[7] % 256, g[8] \div 256, g[8] % 256>>)
        ELSE IF runs = {} \/ best[2] < 2 THEN hex(1, 8)
        ELSE hex(1, best[1] - 1) \o <<":", ":">> \o hex(best[1] + best[2], 8)

format_ip(ip) == IF ip.v = 4 THEN format_octets(ip.parts) ELSE format_groups(ip.parts)

\* Display of a SocketAddr: ip:port, [ip]:port for IPv6
format_socketaddr(ip, port) ==
    IF ip.v = 4 THEN format_ip(ip) \o <<":">> \o to_digits(port, 10)
    ELSE <<"[">> \o format_ip(ip) \o <<"]", ":">> \o to_digits(port, 10)

IpValues ==
    { [v |-> 4, parts |-> <<1, 2, 3, 4>>],
      [v |-> 6, parts |-> <<0, 0, 0, 0, 0, 0, 0, 1>>],
      [v |-> 6, parts |-> <<8193, 3512, 0, 0, 0, 0, 0, 2>>] }

Ports == {1, DefaultPort, U16Max}

\* 1.2.3.300, foo, ::x and 1.2.[3.4
BadIpTexts ==
    { <<"1", ".", "2", ".", "3", ".", "3", "0", "0">>,
      <<"f", "o", "o">>,
      <<":", ":", "x">>,
      <<"1", ".", "2", ".", "[", "3", ".", "4">> }

IpTexts == { format_ip(ip) : ip \in IpValues } \cup BadIpTexts

\* the ports, and 0, 65536, abc, +53, 053 and the empty string
PortTexts ==
    { to_digits(p, 10) : p \in Ports }
    \cup { <<"0">>, <<"6", "5", "5", "3", "6">>, <<"a", "b", "c">>,
           <<"+", "5", "3">>, <<"0", "5", "3">>, << >> }

\* x] ahead of the address
Prefixes == { << >>, <<"x", "]">> }

Inputs ==
    { pre \o open \o ipt \o close \o port :
        pre \in Prefixes, open \in {<< >>, <<"[">>}, ipt \in IpTexts,
        close \in {<< >>, <<"]">>},
        port \in {<< >>} \cup { <<":">> \o pt : pt \in PortTexts } }

InitParse ==
    /\ pc = "parse"
    /\ server \in Inputs
    /\ result = None
    /\ verbose = FALSE
    /\ re = None
    /\ received = << >>
    /\ seen = EmptyMap
    /\ num_records = 0
    /\ zone_count = None
    /\ visited = {}
    /\ lookups = EmptyMap
    /\ failcount = 0
    /\ ok_pct = None
    /\ exit_code = None

NextParse == ParseSocketaddr

SpecParse == InitParse /\ [][NextParse]_vars

(***************************************************************************)
(* What the claims speak of, read off the two histories.                   *)
(***************************************************************************)
Terminal == {"done", "exited", "errored", "panicked"}

\* do_axfr returned Ok(seen)
TransferSucceeded == pc \in {"audit", "done"} \/ (pc = "panicked" /\ lookups # EmptyMap)

IsRejection(resp) == resp.decoded /\ resp.rcode \in {"Refused", "NotAuth"}

IsGood(resp) == resp.decoded /\ resp.rcode = "NoError"

CarriesAddress(rec, addr) == rec.rtype \in {"A", "AAAA"} /\ rec.data = addr

OwnersOf(addr) ==
    LET hit(rec) == CarriesAddress(rec, addr)
        recs == SelectSeq(AllRecords, hit)
    IN  [i \in 1..Len(recs) |-> recs[i].name]

CarriedAddresses ==
    { AllRecords[i].data : i \in { j \in 1..Len(AllRecords) :
                                     \E a \in Addrs : CarriesAddress(AllRecords[j], a) } }

\* the transfer starts and ends with its SOA record
HasBothSoa ==
    /\ Len(AllRecords) >= 2
    /\ AllRecords[1].rtype = "SOA"
    /\ AllRecords[Len(AllRecords)].rtype = "SOA"

Answer(i) == lookups[i[1]][i[2]]

TimedOut(i) == Answer(i).kind = "Timeout"

NoNames(i) ==
    \/ Answer(i).kind \in {"NoRecordsFound", "Other"}
    \/ Answer(i).kind = "Names" /\ Answer(i).names = << >>

\* the (lookup, PTR name) pairs whose name the pattern matches
BadPairs ==
    IF re = None THEN {}
    ELSE UNION { { <<i, j>> : j \in { k \in DOMAIN Answer(i).names :
                                        Answer(i).names[k] \in Unwrap(re) } } :
                 i \in LookupIdx }

NonOkVerdicts ==
    LET idx == LookupIdx
    IN  Cardinality({ i \in idx : TimedOut(i) })
        + Cardinality({ i \in idx : NoNames(i) })
        + Cardinality(BadPairs)

\* ---------------------------------------------------------------------
\* C1: a transfer message with status Refused or NotAuth that do_axfr reads
\* is the last one it reads: the process has exited with status 2, which is
\* not the generic failure status 1, and no reverse lookup was or is issued,
\* whatever the earlier NoError messages put into `seen`.
C1_RejectionExits2 ==
    \A i \in 1..Len(received) :
        IsRejection(received[i]) =>
            /\ i = Len(received)
            /\ pc = "exited"
            /\ exit_code = Some(ExitRefused)
            /\ ExitRefused # ExitFailure
            /\ lookups = EmptyMap
            /\ visited = {}

C1_Witness ==
    /\ pc = "exited"
    /\ Len(received) = 2
    /\ IsRejection(received[2])
    /\ DOMAIN seen # {}

\* C2: a reverse lookup is issued only once the stream has ended with every
\* message decoded and NoError; a message that fails to decode or carries
\* another status ends the run (exit status 1 or 2) with no lookup issued.
C2_LookupsOnlyAfterFullTransfer ==
    /\ lookups # EmptyMap =>
          /\ pc \notin {"connect", "axfr", "errored", "exited"}
          /\ \A i \in 1..Len(received) : IsGood(received[i])
    /\ (\E i \in 1..Len(received) : ~IsGood(received[i])) =>
          /\ pc \in {"errored", "exited"}
          /\ exit_code \in {Some(ExitFailure), Some(ExitRefused)}
          /\ lookups = EmptyMap
          /\ ~IsGood(received[Len(received)])

C2_Witness ==
    /\ lookups # EmptyMap
    /\ Len(received) = 2
    /\ pc = "done"

\* C3: during and after the audit loop failcount is the number of non-Ok
\* verdicts: one per timed-out address, one per address without PTR names,
\* one per (address, PTR name) pair whose name the pattern matches.
C3_FailcountIsNonOkVerdicts ==
    pc \in {"audit", "done"} => failcount = NonOkVerdicts

C3_Witness ==
    /\ pc = "done"
    /\ Cardinality(BadPairs) = 2
    /\ \E i \in LookupIdx : TimedOut(i)
    /\ \E i \in LookupIdx : Len(seen[i[1]]) > 1
    /\ failcount = 3

\* C4: whenever a percentage is printed (here after a transfer that carried
\* its two SOA records) it lies in [0, 100], that is total_addresses -
\* failures is not negative.
C4_PercentInRange ==
    (pc = "done" /\ ok_pct # None /\ HasBothSoa) =>
        /\ 0 <= Unwrap(ok_pct).num
        /\ Unwrap(ok_pct).num <= 100 * Unwrap(ok_pct).den
        /\ Cardinality(DOMAIN seen) - failcount >= 0

C6_SeenIsAddressRecords ==
    TransferSucceeded =>
        /\ DOMAIN seen = CarriedAddresses
        /\ \A a \in DOMAIN seen : seen[a] = OwnersOf(a) /\ seen[a] # << >>

C6_Witness ==
    /\ pc = "audit"
    /\ Len(received) = 2
    /\ \E i \in 1..Len(AllRecords) : AllRecords[i].rtype = "SOA"
    /\ "192.0.2.1" \in DOMAIN seen
    /\ seen["192.0.2.1"] = <<"b.example.", "a.example.">>
    /\ received[1].answers # << >>
    /\ received[2].answers # << >>

\* C7: in verbose mode a transfer that completes reports N - 2 zone records,
\* N the number of answer records of all messages: a count that is not
\* negative, the subtraction never underflowing the unsigned counter.
C7_ZoneCountIsNMinus2 ==
    (verbose /\ received # << >> /\ (\A i \in 1..Len(received) : IsGood(received[i]))) =>
        /\ pc # "panicked"
        /\ TransferSucceeded =>
              /\ zone_count = Some(Len(AllRecords) - 2)
              /\ Unwrap(zone_count) >= 0

(***************************************************************************)
(* The documented forms of a server string.                                *)
(***************************************************************************)
NoBrackets(q) == ~Has(q, "[") /\ ~Has(q, "]")

Bracketed(q) == <<"[">> \o q \o <<"]">>

\* ip:port (an ip without ':') and [ip]:port
FormsWithPort(ipt, pt) ==
    { Bracketed(ipt) \o <<":">> \o pt }
    \cup (IF Has(ipt, ":") THEN {} ELSE { ipt \o <<":">> \o pt })

\* ip (an ip without ':') and [ip]
FormsWithoutPort(ipt) ==
    { Bracketed(ipt) } \cup (IF Has(ipt, ":") THEN {} ELSE { ipt })

\* a port text that reads as a number: decimal digits, a '+' allowed ahead
IsNumeric(pt) ==
    LET d == IF pt # << >> /\ pt[1] = "+" THEN Tail(pt) ELSE pt
    IN  d # << >> /\ \A i \in 1..Len(d) : IsDec(d[i])

NumberOf(pt) ==
    digits_value(IF pt[1] = "+" THEN Tail(pt) ELSE pt, 10, 99999)

IsBadPort(pt) == ~IsNumeric(pt) \/ NumberOf(pt) = 0 \/ NumberOf(pt) > 65535

IsIpText(q) == NoBrackets(q) /\ parse_ip(q) # None

\* ip, [ip], ip:port or [ip]:port, the port a run of digits
IsDocumentedForm(q) ==
    \E k \in 1..Len(q) :
        LET body == SubSeq(q, 1, k)
            rest == SubSeq(q, k + 1, Len(q))
        IN  /\ \/ rest = << >>
               \/ /\ Len(rest) >= 2
                  /\ rest[1] = ":"
                  /\ \A i \in 2..Len(rest) : IsDec(rest[i])
            /\ \/ IsIpText(body)
               \/ /\ Len(body) > 2
                  /\ body[1] = "["
                  /\ body[Len(body)] = "]"
                  /\ IsIpText(SubSeq(body, 2, Len(body) - 1))

Parsed == Unwrap(result)

\* C8: ip:p (IPv4) and [ip]:p (IPv6) parse to (ip, p) for every port p, and
\* an address without a port parses to (ip, 53): an IPv4 address, and an IPv6
\* address with or without its brackets.
C8_DocumentedFormsParse ==
    pc = "parsed" =>
        \A ip \in IpValues :
            /\ \A p \in Ports :
                  server = format_socketaddr(ip, p) => Parsed = Ok(ip, p)
            /\ server = format_ip(ip) => Parsed = Ok(ip, 53)
            /\ server = Bracketed(format_ip(ip)) /\ ip.v = 6 => Parsed = Ok(ip, 53)

\* The part of C8 that holds: the round trip through format, and the default
\* port for an IPv4 address and a bracketed IPv6 address.
C8_RoundTrip ==
    pc = "parsed" =>
        \A ip \in IpValues :
            /\ \A p \in Ports :
                  server = format_socketaddr(ip, p) => Parsed = Ok(ip, p)
            /\ server = format_ip(ip) /\ ip.v = 4 => Parsed = Ok(ip, 53)
            /\ server = Bracketed(format_ip(ip)) /\ ip.v = 6 => Parsed = Ok(ip, 53)

C10_OnlyDocumentedForms ==
    (pc = "parsed" /\ Parsed.kind = "Ok") => IsDocumentedForm(server)

=============================================================================
